---- MODULE Spec2Model ----
(***************************************************************************)
(* Model of the research assistant: backend.fetch_arxiv_papers,            *)
(* backend.build_survey_text and the Streamlit script app.main.            *)
(*                                                                         *)
(* A Python str is modelled as a sequence of tokens.  A token is either a  *)
(* literal delimiter the code splits on ("<entry>", "<title>", "-", ...),  *)
(* a whitespace character (" ", "\n"), a decimal digit, or an opaque run   *)
(* of other characters.  str.split, str.strip, int(), str() and str.join   *)
(* are computed on these sequences the way Python computes them.           *)
(***************************************************************************)
EXTENDS Integers, Sequences, FiniteSets, TLC

VARIABLES pc, caller, text, entries, idx, papers, query, docs,
          papers_text, prompt, llmCalls, llmInput, llmError, result, survey,
          exc, ui, pdf_file, word_file

vars == <<pc, caller, text, entries, idx, papers, query, docs,
          papers_text, prompt, llmCalls, llmInput, llmError, result, survey,
          exc, ui, pdf_file, word_file>>

(***************************************************************************)
(* Bounds of the model.                                                    *)
(***************************************************************************)
MaxEntries == 2
MaxAuthors == 2
MaxDocs == 2

(***************************************************************************)
(* Python string primitives on token sequences.                            *)
(***************************************************************************)
Whitespace == {" ", "\n"}

Digits == <<"0", "1", "2", "3", "4", "5", "6", "7", "8", "9">>

IsDigit(t) == \E d \in 1..10 : Digits[d] = t

DigitValue(t) == (CHOOSE d \in 1..10 : Digits[d] = t) - 1

\* s.find(sep), 1-based; 0 when sep does not occur in s
find(s, sep) ==
    IF \A i \in 1..Len(s) : s[i] # sep THEN 0
    ELSE CHOOSE i \in 1..Len(s) :
            s[i] = sep /\ \A j \in 1..(i - 1) : s[j] # sep

RECURSIVE split(_, _)
\* s.split(sep): the pieces between the occurrences of sep, always >= 1 piece
split(s, sep) ==
    LET i == find(s, sep) IN
    IF i = 0 THEN <<s>>
    ELSE <<SubSeq(s, 1, i - 1)>> \o split(SubSeq(s, i + 1, Len(s)), sep)

RECURSIVE lstrip(_)
lstrip(s) == IF s # <<>> /\ Head(s) \in Whitespace THEN lstrip(Tail(s)) ELSE s

RECURSIVE rstrip(_)
rstrip(s) ==
    IF s # <<>> /\ s[Len(s)] \in Whitespace
    THEN rstrip(SubSeq(s, 1, Len(s) - 1)) ELSE s

\* s.strip()
strip(s) == rstrip(lstrip(s))

RECURSIVE DecimalValue(_)
DecimalValue(s) ==
    IF s = <<>> THEN 0
    ELSE 10 * DecimalValue(SubSeq(s, 1, Len(s) - 1)) + DigitValue(s[Len(s)])

\* int(s): surrounding whitespace is ignored, then one or more decimal
\* digits are required; anything else is a ValueError
int(s) ==
    LET t == strip(s) IN
    IF t = <<>> \/ \E i \in 1..Len(t) : ~IsDigit(t[i])
    THEN [exc |-> "ValueError", val |-> 0]
    ELSE [exc |-> "none", val |-> DecimalValue(t)]

RECURSIVE str(_)
\* str(n) for an int n >= 0, as the f-string of backend.py:79 formats it
str(n) == IF n < 10 THEN <<Digits[n + 1]>>
          ELSE str(n \div 10) \o <<Digits[(n % 10) + 1]>>

RECURSIVE join(_, _)
\* sep.join(parts)
join(sep, parts) ==
    IF parts = <<>> THEN <<>>
    ELSE IF Len(parts) = 1 THEN parts[1]
    ELSE parts[1] \o sep \o join(sep, Tail(parts))

(***************************************************************************)
(* backend.fetch_arxiv_papers: the body of the try block for one entry.    *)
(* An expression that raises is modelled as a record whose exc names the   *)
(* exception; the first one raised in evaluation order wins.               *)
(***************************************************************************)
Raise(e) == [exc |-> e, val |-> <<>>]

\* entry.split(open)[1].split(close)[0].strip()
Extract(entry, open, close) ==
    LET parts == split(entry, open) IN
    IF Len(parts) < 2 THEN Raise("IndexError")
    ELSE [exc |-> "none", val |-> strip(split(parts[2], close)[1])]

\* as Year, but the piece after the first "-" is taken
Year_SecondPiece(published) ==
    LET parts == split(published, "-") IN
    IF Len(parts) < 2 THEN [exc |-> "IndexError", val |-> 0]
    ELSE int(parts[2])

\* int(published.split("-")[0])
Year(published) == int(split(published, "-")[1])

RECURSIVE AuthorNames(_)
\* the for loop of lines 38-40 over entry.split("<author>")[1:]
AuthorNames(parts) ==
    IF parts = <<>> THEN [exc |-> "none", val |-> <<>>]
    ELSE LET name == Extract(parts[1], "<name>", "</name>") IN
         IF name.exc # "none" THEN Raise(name.exc)
         ELSE LET rest == AuthorNames(Tail(parts)) IN
              IF rest.exc # "none" THEN Raise(rest.exc)
              ELSE [exc |-> "none", val |-> <<name.val>> \o rest.val]

RECURSIVE AuthorNames_Lenient(_)
\* as AuthorNames, but an author block without a name is passed over
AuthorNames_Lenient(parts) ==
    IF parts = <<>> THEN [exc |-> "none", val |-> <<>>]
    ELSE LET name == Extract(parts[1], "<name>", "</name>")
             rest == AuthorNames_Lenient(Tail(parts))
         IN  IF name.exc # "none" THEN rest
             ELSE [exc |-> "none", val |-> <<name.val>> \o rest.val]

\* as Authors, with a handler of its own around each name
Authors_Lenient(entry) == AuthorNames_Lenient(Tail(split(entry, "<author>")))

Authors(entry) == AuthorNames(Tail(split(entry, "<author>")))

Document(summary, title, link, year, authors) ==
    [page_content |-> summary,
     metadata |-> [title |-> title, link |-> link, year |-> year,
                   authors |-> authors]]

NoDocument == Document(<<>>, <<>>, <<>>, 0, <<>>)

Raised(e) == [exc |-> e, doc |-> NoDocument]

ParseEntry(entry) ==
    LET title == Extract(entry, "<title>", "</title>")
        summary == Extract(entry, "<summary>", "</summary>")
        link == Extract(entry, "<id>", "</id>")
        published == Extract(entry, "<published>", "</published>")
        year == Year(published.val)
        authors == Authors(entry)
    IN  IF title.exc # "none" THEN Raised(title.exc)
        ELSE IF summary.exc # "none" THEN Raised(summary.exc)
        ELSE IF link.exc # "none" THEN Raised(link.exc)
        ELSE IF published.exc # "none" THEN Raised(published.exc)
        ELSE IF year.exc # "none" THEN Raised(year.exc)
        ELSE IF authors.exc # "none" THEN Raised(authors.exc)
        ELSE [exc |-> "none",
              doc |-> Document(summary.val, title.val, link.val, year.val,
                               authors.val)]

(***************************************************************************)
(* Response bodies the search API may send.  Every entry carries the       *)
(* decimal digit of its position in each of its fields, so that records    *)
(* of different entries are different.  A chunk is laid out like an Atom   *)
(* entry of the arXiv feed: id, published, title, summary, authors.        *)
(***************************************************************************)
RequiredFields == {"title", "summary", "id", "published"}

Open(f) == CASE f = "title" -> "<title>" [] f = "summary" -> "<summary>"
             [] f = "id" -> "<id>" [] f = "published" -> "<published>"

Close(f) == CASE f = "title" -> "</title>" [] f = "summary" -> "</summary>"
              [] f = "id" -> "</id>" [] f = "published" -> "</published>"

\* what is wrong with an entry (d), in which element (f), and how many
\* author blocks it has (a)
EntryKinds ==
    [d : {"ok"}, f : {"none"}, a : 0..MaxAuthors]
    \cup [d : {"absent", "noStart", "noEnd"}, f : RequiredFields, a : {1}]
    \cup [d : {"badYear", "emptyYear", "noDash"}, f : {"published"}, a : {1}]
    \cup {[d |-> "noName", f |-> "author", a |-> 1]}

Content(k, f, i) ==
    CASE f = "title" -> <<"T", Digits[i + 1]>>
      [] f = "summary" -> <<"\n", "S", Digits[i + 1], " ">>
      [] f = "id" -> <<"http://arxiv.org/abs/", Digits[i + 1]>>
      [] f = "published" ->
            CASE k.d = "badYear" -> <<"n", "d", "-", "0", "5">>
              [] k.d = "emptyYear" -> <<"-", "0", "5">>
              [] k.d = "noDash" -> <<"2", "0", "2", Digits[i + 1]>>
              [] OTHER -> <<"2", "0", "2", Digits[i + 1], "-", "0", "5">>

Element(k, f, i) ==
    IF k.f = f /\ k.d = "absent" THEN <<>>
    ELSE (IF k.f = f /\ k.d = "noStart" THEN <<>> ELSE <<Open(f)>>)
         \o Content(k, f, i)
         \o (IF k.f = f /\ k.d = "noEnd" THEN <<>> ELSE <<Close(f)>>)

RECURSIVE AuthorBlocks(_, _, _)
AuthorBlocks(k, i, n) ==
    IF n = 0 THEN <<>>
    ELSE AuthorBlocks(k, i, n - 1)
         \o <<"<author>">>
         \o (IF k.d = "noName" THEN <<>>
             ELSE <<"<name>", "A", Digits[i + 1], Digits[n + 1], "</name>">>)
         \o <<"</author>">>

EntryText(k, i) ==
    <<"<entry>", "\n">>
    \o Element(k, "id", i) \o Element(k, "published", i)
    \o Element(k, "title", i) \o Element(k, "summary", i)
    \o AuthorBlocks(k, i, k.a) \o <<"</entry>", "\n">>

\* the feed header: it has elements of its own under the names the entries
\* use, so it would parse as a record if it were not discarded
Preamble ==
    <<"<feed>", "\n", "<title>", "arXiv Query", "</title>", "\n",
      "<id>", "http://arxiv.org/api/q", "</id>", "\n",
      "<summary>", "feed", "</summary>", "\n",
      "<published>", "2", "0", "1", "9", "-", "0", "1", "</published>", "\n">>

RECURSIVE EntriesText(_, _)
EntriesText(ks, i) ==
    IF i > Len(ks) THEN <<>> ELSE EntryText(ks[i], i) \o EntriesText(ks, i + 1)

\* the feed for a sequence of entry kinds
Feed(ks) == Preamble \o EntriesText(ks, 1) \o <<"</feed>">>

\* bodies that are no feed: an empty body, an error page
OtherBodies == {<<>>, <<"Rate exceeded.">>}

NetworkErrors == {"Timeout", "ConnectionError"}

(***************************************************************************)
(* backend.build_survey_text and the export helpers of app.py.             *)
(***************************************************************************)
\* the template of lines 61-74, one token per line of text (its arrow
\* character written "->"), with the two input variables as placeholder
\* tokens
Template ==
    <<"\n",
      "You are an assistant that writes **professional literature survey drafts**.",
      "\n", "\n",
      "Organize the information into the following sections:", "\n",
      "1. **Background** -> Provide a concise overview of the research area.",
      "\n",
      "2. **Key Themes** -> Summarize recurring ideas/findings as bullet points.",
      "\n",
      "3. **Research Gaps** -> Highlight missing, underexplored, or inconsistent areas.",
      "\n",
      "4. **References** -> List titles with year (from the provided metadata). Do not invent references.",
      "\n", "\n",
      "Papers:", "\n", "{papers}", "\n", "\n",
      "Research Topic: ", "{query}", "\n">>

Placeholders == {"{papers}", "{query}"}

RECURSIVE format(_, _, _)
\* PromptTemplate.format(papers=p, query=q): every placeholder is replaced
\* by its value, and the values are not scanned again
format(t, p, q) ==
    IF \A i \in 1..Len(t) : t[i] \notin Placeholders THEN t
    ELSE LET i == CHOOSE j \in 1..Len(t) :
                     t[j] \in Placeholders
                     /\ \A h \in 1..(j - 1) : t[h] \notin Placeholders
         IN  SubSeq(t, 1, i - 1)
             \o (IF t[i] = "{papers}" THEN p ELSE q)
             \o format(SubSeq(t, i + 1, Len(t)), p, q)

\* the f-string of line 79 for one document
Block(d) ==
    <<"Title: ">> \o d.metadata.title \o <<" (">> \o str(d.metadata.year)
    \o <<")", "\n", "Summary: ">> \o d.page_content

\* as PapersText, but the blocks are joined by a single newline
PapersText_NoBlankLine(ds) ==
    join(<<"\n">>, [i \in 1..Len(ds) |-> Block(ds[i])])

\* lines 78-80
PapersText(ds) == join(<<"\n", "\n">>, [i \in 1..Len(ds) |-> Block(ds[i])])

\* as ResultContent, but the text is stripped before it is returned
ResultContent_Stripped(r) == strip(r.content)

\* result.content, returned as it is (line 82)
ResultContent(r) == r.content

RECURSIVE Paragraphs(_, _)
\* the loops of export_to_pdf and export_to_word over text.split("\n"):
\* one paragraph per line that is not blank, followed by `after`
Paragraphs(lines, after) ==
    IF lines = <<>> THEN <<>>
    ELSE (IF strip(lines[1]) # <<>>
          THEN <<<<"Paragraph">> \o strip(lines[1])>> \o after
          ELSE <<>>)
         \o Paragraphs(Tail(lines), after)

export_to_pdf(t) == Paragraphs(split(t, "\n"), <<<<"Spacer">>>>)

export_to_word(t) == Paragraphs(split(t, "\n"), <<>>)

\* app.py:59, the Top-K slider
TopKMin == 3
TopKMax == 10

\* papers[:top_k]
Slice(s, n) == SubSeq(s, 1, IF n < Len(s) THEN n ELSE Len(s))

(***************************************************************************)
(* Inputs of the survey builder.                                           *)
(***************************************************************************)
Topics == {<<"graphene batteries">>, <<"Blue light", " ", "effect">>}

Completions ==
    {<<"\n", "## Background", "\n", " ", "\n", "## References", " ">>, <<>>}

ModelErrors == {"AuthenticationError", "RateLimitError"}

\* documents a caller other than main may pass to build_survey_text
ExampleDocs ==
    {Document(<<"sa">>, <<"A">>, <<"la">>, 2020, <<>>),
     Document(<<"sb", " ", "more">>, <<"B">>, <<"lb">>, 2021, <<<<"N">>>>)}

RECURSIVE DocSeqs(_)
DocSeqs(n) ==
    IF n = 0 THEN {<<>>}
    ELSE LET shorter == DocSeqs(n - 1) IN
         shorter \cup {Append(s, d) : s \in {t \in shorter : Len(t) = n - 1},
                                      d \in ExampleDocs}

(***************************************************************************)
(* State                                                                   *)
(***************************************************************************)
Init ==
    /\ pc = "start"
    /\ caller = "none"
    /\ text = <<>>
    /\ entries = <<>>
    /\ idx = 0
    /\ papers = <<>>
    /\ query = <<>>
    /\ docs = <<>>
    /\ papers_text = <<>>
    /\ prompt = <<>>
    /\ llmCalls = 0
    /\ llmInput = <<>>
    /\ llmError = "none"
    /\ result = [content |-> <<>>]
    /\ survey = <<>>
    /\ exc = "none"
    /\ ui = <<>>
    /\ pdf_file = <<>>
    /\ word_file = <<>>

(***************************************************************************)
(* app.main                                                                *)
(***************************************************************************)
\* lines 57-65, the button was not pressed: the run returns
NoGenerate ==
    /\ pc = "start"
    /\ pc' = "idle"
    /\ caller' = "main"
    /\ UNCHANGED <<text, entries, idx, papers, query, docs, papers_text,
                   prompt, llmCalls, llmInput, llmError, result, survey, exc, ui,
                   pdf_file, word_file>>

\* lines 57-69, the button was pressed: main calls fetch_arxiv_papers.
\* The topic typed in the sidebar reaches the fetch only as a parameter of
\* the HTTP request, whose answer is any body; the variable query
\* is the parameter of build_survey_text and is bound when that is called.
Generate ==
    /\ pc = "start"
    /\ pc' = "get"
    /\ caller' = "main"
    /\ UNCHANGED <<text, entries, idx, papers, query, docs, papers_text,
                   prompt, llmCalls, llmInput, llmError, result, survey, exc, ui,
                   pdf_file, word_file>>

(***************************************************************************)
(* backend.fetch_arxiv_papers                                              *)
(***************************************************************************)
\* as HttpGet, but the piece before the first entry delimiter is kept
HttpGet_KeepPreamble ==
    /\ pc = "get"
    /\ \/ \E n \in 0..MaxEntries :
             \E ks \in [1..n -> EntryKinds] : text' = Feed(ks)
       \/ \E body \in OtherBodies : text' = body
    /\ entries' = split(text', "<entry>")
    /\ papers' = <<>>
    /\ idx' = 1
    /\ pc' = "loop"
    /\ UNCHANGED <<caller, query, docs, papers_text, prompt, llmCalls,
                   llmInput, llmError, result, survey, exc, ui, pdf_file, word_file>>

\* lines 23-27, requests.get returns (whatever the status): the body is
\* read as text and split into entries
HttpGet ==
    /\ pc = "get"
    /\ \/ \E n \in 0..MaxEntries :
             \E ks \in [1..n -> EntryKinds] : text' = Feed(ks)
       \/ \E body \in OtherBodies : text' = body
    /\ entries' = Tail(split(text', "<entry>"))
    /\ papers' = <<>>
    /\ idx' = 1
    /\ pc' = "loop"
    /\ UNCHANGED <<caller, query, docs, papers_text, prompt, llmCalls,
                   llmInput, llmError, result, survey, exc, ui, pdf_file, word_file>>

\* line 23, requests.get raises: neither fetch_arxiv_papers nor main has a
\* handler around it, so the exception ends the run
HttpGetFails ==
    /\ pc = "get"
    /\ \E e \in NetworkErrors : exc' = e
    /\ pc' = "raised"
    /\ UNCHANGED <<caller, text, entries, idx, papers, query, docs,
                   papers_text, prompt, llmCalls, llmInput, llmError, result, survey,
                   ui, pdf_file, word_file>>

\* as ParseNext, but the handler ends the loop (break for continue)
ParseNext_Break ==
    /\ pc = "loop"
    /\ idx <= Len(entries)
    /\ LET r == ParseEntry(entries[idx]) IN
       /\ papers' = IF r.exc = "none" THEN Append(papers, r.doc) ELSE papers
       /\ idx' = IF r.exc = "none" THEN idx + 1 ELSE Len(entries) + 1
    /\ UNCHANGED <<pc, caller, text, entries, query, docs, papers_text,
                   prompt, llmCalls, llmInput, llmError, result, survey, exc, ui,
                   pdf_file, word_file>>

\* one iteration of the for loop of lines 29-49
ParseNext ==
    /\ pc = "loop"
    /\ idx <= Len(entries)
    /\ LET r == ParseEntry(entries[idx]) IN
       papers' = IF r.exc = "none" THEN Append(papers, r.doc) ELSE papers
    /\ idx' = idx + 1
    /\ UNCHANGED <<pc, caller, text, entries, query, docs, papers_text,
                   prompt, llmCalls, llmInput, llmError, result, survey, exc, ui,
                   pdf_file, word_file>>

\* line 51: the loop is over, papers goes back to main (app.py:69) and the
\* locals of fetch_arxiv_papers are gone
FetchReturn ==
    /\ pc = "loop"
    /\ idx > Len(entries)
    /\ pc' = "fetched"
    /\ text' = <<>>
    /\ entries' = <<>>
    /\ idx' = 0
    /\ UNCHANGED <<caller, papers, query, docs, papers_text, prompt,
                   llmCalls, llmInput, llmError, result, survey, exc, ui, pdf_file,
                   word_file>>

(***************************************************************************)
(* app.main, after the fetch                                               *)
(***************************************************************************)
\* lines 71-73
NoPapersFound ==
    /\ pc = "fetched"
    /\ papers = <<>>
    /\ ui' = Append(ui, "error: No papers found.")
    /\ pc' = "no_papers"
    /\ UNCHANGED <<caller, text, entries, idx, papers, query, docs,
                   papers_text, prompt, llmCalls, llmInput, llmError, result, survey,
                   exc, pdf_file, word_file>>

\* as CallBuildFromMain, without the test of line 71
CallBuildFromMain_NoGuard ==
    /\ pc = "fetched"
    /\ ui' = ui \o <<"success", "retrieved papers">>
    /\ \E topic \in Topics : query' = topic
    /\ \E top_k \in TopKMin..TopKMax : docs' = Slice(papers, top_k)
    /\ pc' = "render"
    /\ UNCHANGED <<caller, text, entries, idx, papers, papers_text,
                   prompt, llmCalls, llmInput, llmError, result, survey, exc,
                   pdf_file, word_file>>

\* lines 71-86: the list is shown and build_survey_text is called with
\* the sidebar's topic and papers[:top_k]
CallBuildFromMain ==
    /\ pc = "fetched"
    /\ papers # <<>>
    /\ ui' = ui \o <<"success", "retrieved papers">>
    /\ \E topic \in Topics : query' = topic
    /\ \E top_k \in TopKMin..TopKMax : docs' = Slice(papers, top_k)
    /\ pc' = "render"
    /\ UNCHANGED <<caller, text, entries, idx, papers, papers_text,
                   prompt, llmCalls, llmInput, llmError, result, survey, exc,
                   pdf_file, word_file>>

(***************************************************************************)
(* backend.build_survey_text                                               *)
(***************************************************************************)
\* a call of build_survey_text by a caller other than main
CallBuildSurvey ==
    /\ pc = "start"
    /\ caller' = "direct"
    /\ \E topic \in Topics : query' = topic
    /\ \E ds \in DocSeqs(MaxDocs) : docs' = ds
    /\ pc' = "render"
    /\ UNCHANGED <<text, entries, idx, papers, papers_text, prompt, llmCalls,
                   llmInput, llmError, result, survey, exc, ui, pdf_file, word_file>>

\* lines 78-80
RenderPapers ==
    /\ pc = "render"
    /\ papers_text' = PapersText(docs)
    /\ pc' = "format"
    /\ UNCHANGED <<caller, text, entries, idx, papers, query, docs, prompt,
                   llmCalls, llmInput, llmError, result, survey, exc, ui, pdf_file,
                   word_file>>

\* line 81, first step of the chain: the prompt template is formatted
FormatPrompt ==
    /\ pc = "format"
    /\ prompt' = format(Template, papers_text, query)
    /\ pc' = "invoke"
    /\ UNCHANGED <<caller, text, entries, idx, papers, query, docs,
                   papers_text, llmCalls, llmInput, llmError, result, survey, exc, ui,
                   pdf_file, word_file>>

\* line 81, second step of the chain: the model is invoked and answers
InvokeModel ==
    /\ pc = "invoke"
    /\ llmCalls' = llmCalls + 1
    /\ llmInput' = prompt
    /\ \E c \in Completions : result' = [content |-> c]
    /\ pc' = "return"
    /\ UNCHANGED <<caller, text, entries, idx, papers, query, docs,
                   papers_text, prompt, llmError, survey, exc, ui, pdf_file,
                   word_file>>

\* as InvokeModelFails, but the error is caught and a placeholder survey
\* is returned in its place
InvokeModelFails_Fallback ==
    /\ pc = "invoke"
    /\ llmCalls' = llmCalls + 1
    /\ llmInput' = prompt
    /\ \E e \in ModelErrors : llmError' = e
    /\ result' = [content |-> <<"(survey unavailable)">>]
    /\ pc' = "return"
    /\ UNCHANGED <<caller, text, entries, idx, papers, query, docs,
                   papers_text, prompt, survey, exc, ui, pdf_file, word_file>>

\* line 81, second step of the chain: the model is invoked and raises e
\* (llmError); there is no handler in build_survey_text or in main, so e
\* is the exception that ends the run
InvokeModelFails ==
    /\ pc = "invoke"
    /\ llmCalls' = llmCalls + 1
    /\ llmInput' = prompt
    /\ \E e \in ModelErrors : llmError' = e /\ exc' = e
    /\ pc' = "raised"
    /\ UNCHANGED <<caller, text, entries, idx, papers, query, docs,
                   papers_text, prompt, result, survey, ui, pdf_file,
                   word_file>>

\* line 82, and the assignment of app.py:86 when main is the caller
ReturnContent ==
    /\ pc = "return"
    /\ survey' = ResultContent(result)
    /\ pc' = IF caller = "main" THEN "show" ELSE "returned"
    /\ UNCHANGED <<caller, text, entries, idx, papers, query, docs,
                   papers_text, prompt, llmCalls, llmInput, llmError, result, exc, ui,
                   pdf_file, word_file>>

(***************************************************************************)
(* app.main, after the survey                                              *)
(***************************************************************************)
\* lines 88-89
ShowSurvey ==
    /\ pc = "show"
    /\ ui' = Append(ui, "survey")
    /\ pc' = "pdf"
    /\ UNCHANGED <<caller, text, entries, idx, papers, query, docs,
                   papers_text, prompt, llmCalls, llmInput, llmError, result, survey,
                   exc, pdf_file, word_file>>

\* lines 95-102
ExportPdf ==
    /\ pc = "pdf"
    /\ pdf_file' = export_to_pdf(survey)
    /\ ui' = Append(ui, "download pdf")
    /\ pc' = "word"
    /\ UNCHANGED <<caller, text, entries, idx, papers, query, docs,
                   papers_text, prompt, llmCalls, llmInput, llmError, result, survey,
                   exc, word_file>>

\* lines 104-111
ExportWord ==
    /\ pc = "word"
    /\ word_file' = export_to_word(survey)
    /\ ui' = Append(ui, "download word")
    /\ pc' = "done"
    /\ UNCHANGED <<caller, text, entries, idx, papers, query, docs,
                   papers_text, prompt, llmCalls, llmInput, llmError, result, survey,
                   exc, pdf_file>>

Next ==
    \/ NoGenerate \/ Generate
    \/ HttpGet \/ HttpGetFails \/ ParseNext \/ FetchReturn
    \/ NoPapersFound \/ CallBuildFromMain
    \/ CallBuildSurvey \/ RenderPapers \/ FormatPrompt
    \/ InvokeModel \/ InvokeModelFails \/ ReturnContent
    \/ ShowSurvey \/ ExportPdf \/ ExportWord

Spec == Init /\ [][Next]_vars

(***************************************************************************)
(* Reading a response by the positions of its delimiters.  These operators *)
(* state what the claims say about the input; they do not use split.       *)
(***************************************************************************)
Positions(s, tok) == {i \in 1..Len(s) : s[i] = tok}

Count(s, tok) == Cardinality(Positions(s, tok))

Least(S) == CHOOSE p \in S : \A q \in S : p <= q

Nth(S, k) == CHOOSE p \in S : Cardinality({q \in S : q < p}) = k - 1

Trim(s) ==
    LET keep == {i \in 1..Len(s) : s[i] \notin Whitespace} IN
    IF keep = {} THEN <<>>
    ELSE SubSeq(s, Least(keep), CHOOSE p \in keep : \A q \in keep : q <= p)

NEntries == Count(text, "<entry>")

\* the tokens from the i-th entry delimiter to the next one, or to the end
EntryBlock(i) ==
    LET S == Positions(text, "<entry>") IN
    SubSeq(text, Nth(S, i) + 1,
           IF i < Cardinality(S) THEN Nth(S, i + 1) - 1 ELSE Len(text))

\* element f is in chunk c once, start delimiter before end delimiter
FieldPresent(c, f) ==
    /\ Count(c, Open(f)) = 1
    /\ Count(c, Close(f)) = 1
    /\ Least(Positions(c, Open(f))) < Least(Positions(c, Close(f)))

\* neither delimiter of element f is in chunk c
FieldAbsent(c, f) == Count(c, Open(f)) = 0 /\ Count(c, Close(f)) = 0

FieldValue(c, f) ==
    Trim(SubSeq(c, Least(Positions(c, Open(f))) + 1,
                Least(Positions(c, Close(f))) - 1))

\* the characters of a date string that precede its first "-"
BeforeDash(date) ==
    LET D == Positions(date, "-") IN
    IF D = {} THEN date ELSE SubSeq(date, 1, Least(D) - 1)

IsNumber(s) == s # <<>> /\ \A i \in 1..Len(s) : IsDigit(s[i])

NumberOf(s) ==
    LET v[i \in 0..Len(s)] ==
            IF i = 0 THEN 0 ELSE 10 * v[i - 1] + DigitValue(s[i])
    IN  v[Len(s)]

\* the tokens of the k-th author block of c: from its start delimiter to
\* the next author start delimiter, or to the end of the chunk
AuthorBlock(c, k) ==
    LET S == Positions(c, "<author>") IN
    SubSeq(c, Nth(S, k) + 1,
           IF k < Cardinality(S) THEN Nth(S, k + 1) - 1 ELSE Len(c))

NamePresent(b) ==
    /\ Positions(b, "<name>") # {}
    /\ \E q \in Positions(b, "</name>") : q > Least(Positions(b, "<name>"))

NameOf(b) ==
    LET a == Least(Positions(b, "<name>")) IN
    Trim(SubSeq(b, a + 1,
                Least({q \in Positions(b, "</name>") : q > a}) - 1))

AuthorsWellFormed(c) ==
    \A k \in 1..Count(c, "<author>") : NamePresent(AuthorBlock(c, k))

ExpectedAuthors(c) ==
    [k \in 1..Count(c, "<author>") |-> NameOf(AuthorBlock(c, k))]

WellFormed(c) ==
    /\ \A f \in RequiredFields : FieldPresent(c, f)
    /\ IsNumber(Trim(BeforeDash(FieldValue(c, "published"))))
    /\ AuthorsWellFormed(c)

Expected(c) ==
    Document(FieldValue(c, "summary"), FieldValue(c, "title"),
             FieldValue(c, "id"),
             NumberOf(Trim(BeforeDash(FieldValue(c, "published")))),
             ExpectedAuthors(c))

\* exactly one required element of c is missing, the rest of c is in order
OneFieldMissing(c) ==
    /\ \E f \in RequiredFields :
          /\ FieldAbsent(c, f)
          /\ \A g \in RequiredFields \ {f} : FieldPresent(c, g)
    /\ FieldPresent(c, "published") =>
          IsNumber(Trim(BeforeDash(FieldValue(c, "published"))))
    /\ AuthorsWellFormed(c)

\* fetch_arxiv_papers is at its return statement (line 51)
AtReturn == pc = "loop" /\ idx > Len(entries)

C2_AllEntriesParsedInOrder ==
    (AtReturn /\ \A i \in 1..NEntries : WellFormed(EntryBlock(i)))
    => papers = [i \in 1..NEntries |-> Expected(EntryBlock(i))]

\* a response with a preamble and at least two well-formed entries
C2_Witness ==
    /\ AtReturn
    /\ NEntries >= 2
    /\ text[1] # "<entry>"
    /\ \A i \in 1..NEntries : WellFormed(EntryBlock(i))
    /\ Len(papers) = NEntries

(***************************************************************************)
(* C3: when the HTTP GET fails, fetch returns an empty sequence, no        *)
(* exception reaches the caller, and the caller ends in the "no papers     *)
(* found" state.                                                           *)
(***************************************************************************)
C3_NetworkFailureAbsorbed ==
    exc \in NetworkErrors =>
        /\ pc \in {"fetched", "no_papers"}
        /\ papers = <<>>

\* positions of the run inside and after build_survey_text
InBuild == pc \in {"render", "format", "invoke", "return"}

AfterBuild == pc \in {"show", "pdf", "word", "done"}

(***************************************************************************)
(* C4: in a run of main, an empty fetch result ends the run in the error   *)
(* state with no survey built, no model invocation and no export; the      *)
(* survey builder is only entered after a fetch that returned a record.    *)
(***************************************************************************)
C4_EmptyFetchShortCircuits ==
    /\ [](caller = "main" =>
            /\ pc = "no_papers" =>
                  /\ papers = <<>>
                  /\ ui = <<"error: No papers found.">>
                  /\ llmCalls = 0
                  /\ prompt = <<>>
                  /\ pdf_file = <<>> /\ word_file = <<>>
            /\ (InBuild \/ AfterBuild \/ llmCalls > 0) => papers # <<>>)
    /\ [][/\ (pc = "fetched" /\ papers = <<>>) => pc' = "no_papers"
          /\ pc = "no_papers" => UNCHANGED vars]_vars

\* a run of main has ended in the error state
C4_Witness ==
    /\ caller = "main"
    /\ pc = "no_papers"
    /\ ui = <<"error: No papers found.">>

(***************************************************************************)
(* C5: when the model invocation raises, build_survey_text returns         *)
(* nothing and the same error ends the caller's run: one invocation, no    *)
(* fallback text, no survey shown, no export.                              *)
(***************************************************************************)
C5_ModelErrorPropagates ==
    llmError # "none" =>
        /\ pc = "raised"
        /\ exc = llmError
        /\ llmCalls = 1
        /\ result.content = <<>> /\ survey = <<>>
        /\ \A i \in 1..Len(ui) :
              ui[i] \notin {"survey", "download pdf", "download word"}
        /\ pdf_file = <<>> /\ word_file = <<>>

\* the model raised while main was building a survey of fetched papers
C5_Witness ==
    /\ caller = "main"
    /\ llmError \in ModelErrors
    /\ pc = "raised"
    /\ Len(docs) >= 1

(***************************************************************************)
(* C6: a call of build_survey_text invokes the model exactly once, with    *)
(* the rendered prompt and after it is rendered, and returns the text of   *)
(* that completion as it is.                                               *)
(***************************************************************************)
C6_OneInvocationVerbatim ==
    /\ llmCalls <= 1
    /\ (InBuild /\ pc # "return") => llmCalls = 0
    /\ llmCalls = 1 =>
          /\ llmInput = prompt
          /\ prompt # <<>>
          /\ \A i \in 1..Len(llmInput) : llmInput[i] \notin Placeholders
    /\ (AfterBuild \/ pc \in {"return", "returned"}) => llmCalls = 1
    /\ (AfterBuild \/ pc = "returned") => survey = result.content

\* a call with two papers has returned a completion with blank edges
C6_Witness ==
    /\ pc = "returned"
    /\ Len(docs) = 2
    /\ llmCalls = 1
    /\ survey # <<>>
    /\ survey[1] \in Whitespace

\* the decimal numeral of a four-digit year
Numeral(n) ==
    <<Digits[((n \div 1000) % 10) + 1], Digits[((n \div 100) % 10) + 1],
      Digits[((n \div 10) % 10) + 1], Digits[(n % 10) + 1]>>

ExpectedSection(ds) ==
    LET sec[i \in 0..Len(ds)] ==
            IF i = 0 THEN <<>>
            ELSE sec[i - 1]
                 \o (IF i > 1 THEN <<"\n", "\n">> ELSE <<>>)
                 \o <<"Title: ">> \o ds[i].metadata.title
                 \o <<" (">> \o Numeral(ds[i].metadata.year) \o <<")">>
                 \o <<"\n">>
                 \o <<"Summary: ">> \o ds[i].page_content
    IN  sec[Len(ds)]

BeforePapers == SubSeq(Template, 1, Least(Positions(Template, "{papers}")) - 1)

(***************************************************************************)
(* C7: the papers section of the prompt sent to the model is, for K        *)
(* records, K blocks "Title: <title> (<year>)" newline "Summary:           *)
(* <summary>", the i-th from the i-th record, separated by one blank       *)
(* line; for K = 0 it is empty, the topic is still in the prompt, and      *)
(* nothing is raised before the model is invoked.                          *)
(***************************************************************************)
C7_PapersSectionRendered ==
    /\ llmCalls >= 1 =>
          llmInput = BeforePapers \o ExpectedSection(docs)
                     \o <<"\n", "\n", "Research Topic: ">> \o query \o <<"\n">>
    /\ (caller = "direct" /\ pc = "raised") => llmCalls = 1

\* the model has been invoked for an empty sequence of papers
C7_Witness ==
    /\ caller = "direct"
    /\ docs = <<>>
    /\ llmCalls = 1
    /\ pc = "returned"

\* the step of ParseNext on chunk entries[idx]
ParseStep == pc = "loop" /\ idx <= Len(entries) /\ idx' = idx + 1

Appended == papers' # papers

HasDate(c) == Positions(c, "<published>") # {}

DateString(c) ==
    LET a == Least(Positions(c, "<published>"))
        E == {q \in Positions(c, "</published>") : q > a}
    IN  Trim(SubSeq(c, a + 1, IF E = {} THEN Len(c) ELSE Least(E) - 1))

YearText(c) == Trim(BeforeDash(DateString(c)))

(***************************************************************************)
(* C8: the year of every record fetch appends is the integer formed by     *)
(* the characters of the entry's published-date string before its first    *)
(* "-"; when they are not an integer the entry gives no record.  The date  *)
(* string is what follows the start delimiter, up to the end delimiter     *)
(* when the chunk has one.                                                 *)
(***************************************************************************)
C8_YearIsDatePrefix ==
    [][ParseStep =>
          LET c == entries[idx] IN
          /\ Appended =>
                /\ papers' = Append(papers, papers'[Len(papers')])
                /\ HasDate(c)
                /\ IsNumber(YearText(c))
                /\ papers'[Len(papers')].metadata.year = NumberOf(YearText(c))
          /\ (HasDate(c) /\ ~IsNumber(YearText(c))) => ~Appended]_vars

\* the first chunk had a date that is no integer and gave no record, the
\* second gave a record of year 2022
C8_Witness ==
    /\ pc = "loop"
    /\ idx = 3
    /\ HasDate(entries[1])
    /\ ~IsNumber(YearText(entries[1]))
    /\ Len(papers) = 1
    /\ papers[1].metadata.year = 2022

(***************************************************************************)
(* C9: every record fetch appends comes from a chunk in which each of      *)
(* title, summary, link and published date has both its start and its end  *)
(* delimiter; a chunk with any of them missing yields no record.           *)
(***************************************************************************)
C9_RecordOnlyFromDelimitedFields ==
    [][(ParseStep /\ Appended) =>
          \A f \in RequiredFields : FieldPresent(entries[idx], f)]_vars

\* the required fields of c are in order; c has an author start delimiter
\* with no name start delimiter after it
RequiredInOrder(c) ==
    /\ \A f \in RequiredFields : FieldPresent(c, f)
    /\ IsNumber(Trim(BeforeDash(FieldValue(c, "published"))))

AuthorWithoutName(c) ==
    \E p \in Positions(c, "<author>") :
        \A q \in Positions(c, "<name>") : q < p

(***************************************************************************)
(* C10: a chunk whose required fields are in order but which has an        *)
(* author start delimiter with no name start delimiter after it gives no   *)
(* record; one with no author block gives a record with no authors; and    *)
(* when every author block has its name, the record lists one name per     *)
(* author block in order.                                                  *)
(***************************************************************************)
C10_AuthorsShareErrorScope ==
    [][(ParseStep /\ RequiredInOrder(entries[idx])) =>
          LET c == entries[idx] IN
          /\ AuthorWithoutName(c) => ~Appended
          /\ Count(c, "<author>") = 0 =>
                /\ Appended
                /\ papers'[Len(papers')].metadata.authors = <<>>
          /\ AuthorsWellFormed(c) =>
                /\ Appended
                /\ papers'[Len(papers')].metadata.authors = ExpectedAuthors(c)]_vars

\* the first chunk had an author block without a name and gave no record,
\* the second had two author blocks and gave a record with two names
C10_Witness ==
    /\ pc = "loop"
    /\ idx = 3
    /\ RequiredInOrder(entries[1])
    /\ AuthorWithoutName(entries[1])
    /\ Len(papers) = 1
    /\ Len(papers[1].metadata.authors) = 2
====
